---- MODULE Spec2Model ----
(***************************************************************************)
(* Model of the file picker's tree cache and status reconciliation:        *)
(*   useFileTree            expansion, fragment cache, folder status poll  *)
(*   useKnowledgeBaseStatus root-level status poll (both variants)         *)
(*   useFileSelection       selection propagation                          *)
(* React state is modelled as variables; every await of a handler is a     *)
(* suspension point, so a handler is one action per stretch between awaits. *)
(* A closure keeps the values of the render it was created in: the record of *)
(* an in-flight toggleFolder carries what its closure captured.             *)
(***************************************************************************)
EXTENDS Integers, Sequences, FiniteSets, Bags, TLC

\* ------------------------------------------------------------------ bounds
MaxProcs == 2
MaxToasts == 2
MaxNow == 180000
MaxSelected == 2

\* ------------------------------------------------------- program constants
POLL_INTERVAL == 3000
MAX_POLL_DURATION == 2 * 60 * 1000
\* The clock is observed at multiples of TimeStep.
TimeStep == MAX_POLL_DURATION \div 2

\* ------------------------------------------------------------- the drive
NoKB == "null"
KB == "kb1"
Root == "root"
NoFolder == "none"
DirIds == {"D", "E"}
Folders == {Root} \cup DirIds

\* A FileItem as the drive lists it: no status yet ("absent" is undefined).
Item(id, name, type) == [id |-> id, name |-> name, type |-> type, status |-> "absent"]

\* listResources(folderId): the children of a folder, in the drive's order.
\* A name is the full path, held as its "/"-separated segments.
Drive(folder) ==
  CASE folder = Root -> << Item("D", <<"D">>, "directory"), Item("r", <<"r">>, "file") >>
    [] folder = "D" -> << Item("E", <<"D", "E">>, "directory"), Item("a", <<"D", "a">>, "file") >>
    [] folder = "E" -> << Item("b", <<"D", "E", "b">>, "file") >>
    [] OTHER -> << >>

KnownStatus == {"indexed", "pending", "pending_delete", "error"}
\* What the status endpoint may report for one resource ("absent": no status field).
RespStatus == KnownStatus \cup {"absent"}

EmptyMap == [x \in {} |-> "unknown"]

RangeOf(f) == {f[x] : x \in DOMAIN f}

VARIABLES
  cache,            \* queryClient's ["drive-files", folder] entries
  expandedFolders,  \* useFileTree state
  loadingFolders,   \* useFileTree state
  errorToastShown,  \* useFileTree state
  kbId,             \* the active knowledge base handed to the hooks
  procs,            \* in-flight toggleFolder calls and the poll chains they start
  toastShown,       \* notifications displayed so far, per toast id
  now,              \* Date.now()
  rowSelection,     \* useFileSelection state
  variant,          \* which useKnowledgeBaseStatus source is built
  shouldPoll,       \* useKnowledgeBaseStatus state
  pollingStartTime, \* useKnowledgeBaseStatus state
  hasShownErrorToast, \* useKnowledgeBaseStatus state
  kbResources,      \* data of the ["kb-resources", kbId] query
  rootPolledAt,     \* when the root query last fetched (-1: not yet)
  pollBegan,        \* when the root query of the active knowledge base was enabled
  isDeleting,       \* useKnowledgeBaseDeletion state
  deletingFiles,    \* useKnowledgeBaseDeletion state
  batch,            \* the deleteFilesMutation run: its input, the requests sent, their results
  overlap,          \* a second deleteFilesMutation run, started while batch was running
  kbInvalidated,    \* the ["kb-resources"] queries are marked invalidated
  lastOp            \* the operation that produced this state

vars == << cache, expandedFolders, loadingFolders, errorToastShown, kbId, procs,
           toastShown, now, rowSelection, variant, shouldPoll,
           pollingStartTime, hasShownErrorToast, kbResources, rootPolledAt,
           pollBegan, isDeleting, deletingFiles, batch, overlap, kbInvalidated, lastOp >>

treeVars == << cache, expandedFolders, loadingFolders, errorToastShown, procs >>
rootVars == << variant, shouldPoll, pollingStartTime, hasShownErrorToast, kbResources,
              rootPolledAt, pollBegan >>
delVars == << isDeleting, deletingFiles, batch, overlap, kbInvalidated >>

\* op: the operation; f: its folder, node or toast id; ids: the ids its status
\* fetch returned.
Op(op, f, ids) == [op |-> op, f |-> f, ids |-> ids]

\* ------------------------------------------------------------ the cache
Absent == [present |-> FALSE, data |-> << >>]
Entry(files) == [present |-> TRUE, data |-> files]

\* getFolderPath: "/" + the first file's name without its last segment.
GetFolderPath(files) ==
  IF Len(files) = 0 THEN << >>
  ELSE SubSeq(files[1].name, 1, Len(files[1].name) - 1)

\* A response of listKBResourcesSafe(kbId, folderPath): it throws, or it
\* returns resources of the folder, each with a status or none.
Responses(folder) ==
  LET items == Drive(folder)
      ids == {items[i].id : i \in 1..Len(items)}
      typeOf(id) == (CHOOSE i \in 1..Len(items) : items[i].id = id)
      allowed(id) == IF items[typeOf(id)].type = "directory" THEN {"absent"} ELSE RespStatus
      maps == UNION {{m \in [S -> RespStatus] : \A id \in S : m[id] \in allowed(id)} : S \in SUBSET ids}
  IN {[ok |-> FALSE, data |-> EmptyMap]} \cup {[ok |-> TRUE, data |-> m] : m \in maps}

\* fetchKBStatusForFolder: id -> status, "unknown" for a resource without one;
\* the empty map without a knowledge base or when the fetch throws.
FetchKBStatusForFolder(kb, resp) ==
  IF kb = NoKB \/ ~resp.ok THEN EmptyMap
  ELSE [id \in DOMAIN resp.data |->
          IF resp.data[id] = "absent" THEN "unknown" ELSE resp.data[id]]

MergeResetsMissing(files, kbStatusMap) ==
  [i \in 1..Len(files) |->
     [files[i] EXCEPT !.status =
        IF files[i].id \in DOMAIN kbStatusMap THEN kbStatusMap[files[i].id] ELSE "unknown"]]

MergeDropsUnlisted(files, kbStatusMap) ==
  LET Listed(file) == file.id \in DOMAIN kbStatusMap
      kept == SelectSeq(files, Listed)
  IN [i \in 1..Len(kept) |-> [kept[i] EXCEPT !.status = kbStatusMap[kept[i].id]]]

\* updateCachedFilesWithStatus, the map: status = kbStatusMap.get(id) || file.status
MergeStatus(files, kbStatusMap) ==
  [i \in 1..Len(files) |->
     [files[i] EXCEPT !.status =
        IF files[i].id \in DOMAIN kbStatusMap THEN kbStatusMap[files[i].id] ELSE @]]

HasStatus(files, st) ==
  \E i \in 1..Len(files) : files[i].type = "file" /\ files[i].status = st

UpdateCachedFilesCreatesEntry(entry, kbStatusMap) ==
  LET files == IF entry.present THEN entry.data ELSE << >>
      updatedFiles == MergeStatus(files, kbStatusMap)
  IN [entry |-> Entry(updatedFiles),
      hasPending |-> HasStatus(updatedFiles, "pending"),
      hasErrors |-> HasStatus(updatedFiles, "error")]

\* updateCachedFilesWithStatus: the new cache entry and the two flags.
UpdateCachedFilesWithStatus(entry, kbStatusMap) ==
  IF ~entry.present
    THEN [entry |-> entry, hasPending |-> FALSE, hasErrors |-> FALSE]
    ELSE LET updatedFiles == MergeStatus(entry.data, kbStatusMap)
         IN [entry |-> Entry(updatedFiles),
             hasPending |-> HasStatus(updatedFiles, "pending"),
             hasErrors |-> HasStatus(updatedFiles, "error")]
\* ------------------------------------------------------ tree materializer
\* statusMap of useKnowledgeBaseStatus: id -> status || "unknown".
StatusMapOf(res) ==
  IF ~res.present THEN EmptyMap
  ELSE [id \in DOMAIN res.data |->
          IF res.data[id] = "absent" THEN "unknown" ELSE res.data[id]]

RECURSIVE BuildFileTreeAllCached(_, _, _, _, _, _)
BuildFileTreeAllCached(c, expanded, loading, statusMap, files, level) ==
  [i \in 1..Len(files) |->
     LET file == files[i]
         children ==
           IF file.type = "directory" /\ c[file.id].present
             THEN BuildFileTreeAllCached(c, expanded, loading, statusMap, c[file.id].data, level + 1)
             ELSE << >>
     IN [id |-> file.id, name |-> file.name, type |-> file.type, status |-> file.status,
         isExpanded |-> file.id \in expanded, isLoading |-> file.id \in loading,
         level |-> level, children |-> children]]

RECURSIVE BuildFileTreeCollapsed(_, _, _, _, _, _)
BuildFileTreeCollapsed(c, expanded, loading, statusMap, files, level) ==
  [i \in 1..Len(files) |->
     LET file == files[i]
         isLoading == file.id \in loading
         children ==
           IF file.type = "directory" /\ ~isLoading /\ c[file.id].present
             THEN BuildFileTreeCollapsed(c, expanded, loading, statusMap, c[file.id].data, level + 1)
             ELSE << >>
     IN [id |-> file.id, name |-> file.name, type |-> file.type, status |-> file.status,
         isExpanded |-> file.id \in expanded, isLoading |-> isLoading,
         level |-> level, children |-> children]]

RECURSIVE BuildFileTreeOwnStatus(_, _, _, _, _, _)
BuildFileTreeOwnStatus(c, expanded, loading, statusMap, files, level) ==
  [i \in 1..Len(files) |->
     LET file == files[i]
         isExpanded == file.id \in expanded
         isLoading == file.id \in loading
         children ==
           IF file.type = "directory" /\ isExpanded /\ ~isLoading /\ c[file.id].present
             THEN BuildFileTreeOwnStatus(c, expanded, loading, statusMap, c[file.id].data, level + 1)
             ELSE << >>
     IN [id |-> file.id, name |-> file.name, type |-> file.type, status |-> file.status,
         isExpanded |-> isExpanded, isLoading |-> isLoading,
         level |-> level, children |-> children]]

RECURSIVE BuildFileTree(_, _, _, _, _, _)
\* buildFileTree: children only for an expanded, not loading directory whose
\* fragment is cached; root rows take the status map's value, if it has one.
BuildFileTree(c, expanded, loading, statusMap, files, level) ==
  [i \in 1..Len(files) |->
     LET file == files[i]
         isExpanded == file.id \in expanded
         isLoading == file.id \in loading
         children ==
           IF file.type = "directory" /\ isExpanded /\ ~isLoading /\ c[file.id].present
             THEN BuildFileTree(c, expanded, loading, statusMap, c[file.id].data, level + 1)
             ELSE << >>
         kbStatus == IF level = 0
                       THEN (IF file.id \in DOMAIN statusMap THEN statusMap[file.id] ELSE "absent")
                       ELSE file.status
     IN [id |-> file.id, name |-> file.name, type |-> file.type,
         status |-> IF kbStatus # "absent" THEN kbStatus ELSE file.status,
         isExpanded |-> isExpanded, isLoading |-> isLoading,
         level |-> level, children |-> children]]

RECURSIVE FlattenTreeChildrenLast(_)
FlattenTreeChildrenLast(tree) ==
  IF Len(tree) = 0 THEN << >>
  ELSE << tree[1] >>
       \o FlattenTreeChildrenLast(Tail(tree))
       \o FlattenTreeChildrenLast(tree[1].children)

RECURSIVE FlattenTree(_)
\* flattenTree: each item, then its children's rows, in order.
FlattenTree(tree) ==
  IF Len(tree) = 0 THEN << >>
  ELSE << tree[1] >>
       \o FlattenTree(tree[1].children)
       \o FlattenTree(Tail(tree))

\* fileTree / flatFiles of the current render.
FileTree ==
  IF cache[Root].present
    THEN BuildFileTree(cache, expandedFolders, loadingFolders, StatusMapOf(kbResources),
                       cache[Root].data, 0)
    ELSE << >>

FlatFiles == FlattenTree(FileTree)

RowIds(files) == {files[i].id : i \in 1..Len(files)}
RowOf(files, id) == files[CHOOSE i \in 1..Len(files) : files[i].id = id]

\* ------------------------------------------------------------- toasts
\* toast.error with a toastId displays a notification unless one with that id
\* is still on screen (it leaves after autoClose or when dismissed). onScreen
\* is whether an earlier one still is.
CanBeOnScreen(id, onScreen) == onScreen => toastShown[id] > 0
ToastError(id, onScreen) ==
  IF onScreen THEN toastShown
  ELSE [toastShown EXCEPT ![id] = IF @ < MaxToasts THEN @ + 1 ELSE @]

ToastIds == DirIds \cup {"kb"}
\* ------------------------------------------------- useFileTree: operations
\* One in-flight toggleFolder call, or the poll chain it started: where it
\* stands and what its closure holds. Of the captured errorToastShown only
\* has(folderId) is ever read: shown. start is when its poll chain began.
Call(pc, f, path, shown, kb, start) ==
  [pc |-> pc, f |-> f, path |-> path, shown |-> shown, kb |-> kb, start |-> start]

Calls == BagToSet(procs)
Put(bag, p) == bag (+) SetToBag({p})
Drop(bag, p) == bag (-) SetToBag({p})

\* The expand button of a directory row: rendered for a row of the flattened
\* list, disabled while the row is loading.
CanToggle(f) ==
  /\ f \in RowIds(FlatFiles)
  /\ RowOf(FlatFiles, f).type = "directory"
  /\ ~RowOf(FlatFiles, f).isLoading

\* toggleFolder up to its first await: collapse, or mark loading and start the
\* fragment fetch.
ToggleFolder(f) ==
  /\ CanToggle(f)
  /\ IF f \in expandedFolders
       THEN /\ expandedFolders' = expandedFolders \ {f}
            /\ UNCHANGED << loadingFolders, procs >>
       ELSE /\ BagCardinality(procs) < MaxProcs
            /\ loadingFolders' = loadingFolders \cup {f}
            /\ procs' = Put(procs, Call("fetchFragment", f, << >>, f \in errorToastShown, kbId, 0))
            /\ UNCHANGED expandedFolders
  /\ lastOp' = Op("toggleFolder", f, {})
  /\ UNCHANGED << cache, errorToastShown, kbId, delVars, toastShown, now, rowSelection, rootVars >>

FragmentFetchedPoisons(p, outcome) ==
  LET f == p.f
      driveFiles == IF outcome = "hit" THEN cache[f].data ELSE Drive(f)
  IN /\ p \in Calls
     /\ p.pc = "fetchFragment"
     /\ outcome = "hit" => cache[f].present
     /\ cache' = IF outcome = "fetched" THEN [cache EXCEPT ![f] = Entry(Drive(f))]
                 ELSE IF outcome = "failed" THEN [cache EXCEPT ![f] = Absent]
                 ELSE cache
     /\ IF p.kb # NoKB /\ Len(driveFiles) > 0 /\ outcome # "failed"
          THEN /\ procs' = Put(Drop(procs, p),
                               [p EXCEPT !.pc = "fetchStatus", !.path = GetFolderPath(driveFiles)])
               /\ UNCHANGED << loadingFolders, expandedFolders >>
          ELSE /\ expandedFolders' = expandedFolders \cup {f}
               /\ loadingFolders' = loadingFolders \ {f}
               /\ procs' = Drop(procs, p)
     /\ lastOp' = Op(IF outcome = "failed" THEN "fragmentFailed" ELSE "fragmentFetched", f, {})
     /\ UNCHANGED << errorToastShown, kbId, delVars, toastShown, now, rowSelection, rootVars >>

\* toggleFolder from the end of fetchFolderContents to the next await (or to its
\* end). fetchQuery answers from a fresh cache entry ("hit"), stores what the
\* drive lists ("fetched"), or throws and leaves the entry alone ("failed").
FragmentFetched(p, outcome) ==
  LET f == p.f
      driveFiles == IF outcome = "hit" THEN cache[f].data ELSE Drive(f)
  IN /\ p \in Calls
     /\ p.pc = "fetchFragment"
     /\ outcome = "hit" => cache[f].present
     /\ cache' = IF outcome = "fetched" THEN [cache EXCEPT ![f] = Entry(Drive(f))] ELSE cache
     /\ IF outcome = "failed"
          THEN /\ loadingFolders' = loadingFolders \ {f}
               /\ procs' = Drop(procs, p)
               /\ UNCHANGED expandedFolders
          ELSE IF p.kb # NoKB /\ Len(driveFiles) > 0
            THEN /\ procs' = Put(Drop(procs, p),
                                 [p EXCEPT !.pc = "fetchStatus", !.path = GetFolderPath(driveFiles)])
                 /\ UNCHANGED << loadingFolders, expandedFolders >>
            ELSE /\ expandedFolders' = expandedFolders \cup {f}
                 /\ loadingFolders' = loadingFolders \ {f}
                 /\ procs' = Drop(procs, p)
     /\ lastOp' = Op(IF outcome = "failed" THEN "fragmentFailed" ELSE "fragmentFetched", f, {})
     /\ UNCHANGED << errorToastShown, kbId, delVars, toastShown, now, rowSelection, rootVars >>

\* toggleFolder from the end of fetchKBStatusForFolder to its end: merge, the
\* error toast, the poll-start decision, then expanded and no longer loading.
StatusFetched(p, resp, onScreen) ==
  LET f == p.f
      kbStatusMap == FetchKBStatusForFolder(p.kb, resp)
      r == UpdateCachedFilesWithStatus(cache[f], kbStatusMap)
      toast == r.hasErrors /\ ~p.shown
  IN /\ p \in Calls
     /\ p.pc = "fetchStatus"
     /\ IF toast THEN CanBeOnScreen(f, onScreen) ELSE ~onScreen
     /\ cache' = [cache EXCEPT ![f] = r.entry]
     /\ errorToastShown' = IF toast THEN errorToastShown \cup {f} ELSE errorToastShown
     /\ toastShown' = IF toast THEN ToastError(f, onScreen) ELSE toastShown
     /\ procs' = IF r.hasPending
                   THEN Put(Drop(procs, p), [p EXCEPT !.pc = "timer", !.start = now])
                   ELSE Drop(procs, p)
     /\ expandedFolders' = expandedFolders \cup {f}
     /\ loadingFolders' = loadingFolders \ {f}
     /\ lastOp' = Op("statusFetched", f, DOMAIN kbStatusMap)
     /\ UNCHANGED << kbId, delVars, now, rowSelection, rootVars >>

\* pollFolderStatus, one tick: the timer fires, the status fetch answers, and
\* the chain goes on after POLL_INTERVAL or ends with the final update. Nothing
\* is read or written before the fetch answers, so the tick is one step. How
\* long after setTimeout the callback runs is AdvanceTime's choice.
PollFolderStatus(p, resp, onScreen) ==
  LET f == p.f
      freshStatus == FetchKBStatusForFolder(p.kb, resp)
      stillPending == "pending" \in RangeOf(freshStatus)
      r == UpdateCachedFilesWithStatus(cache[f], freshStatus)
      toast == ~stillPending /\ r.hasErrors /\ ~p.shown
  IN /\ p \in Calls
     /\ p.pc = "timer"
     /\ IF toast THEN CanBeOnScreen(f, onScreen) ELSE ~onScreen
     /\ IF stillPending
          THEN UNCHANGED << procs, cache >>
          ELSE /\ procs' = Drop(procs, p)
               /\ cache' = [cache EXCEPT ![f] = r.entry]
     /\ errorToastShown' = IF toast THEN errorToastShown \cup {f} ELSE errorToastShown
     /\ toastShown' = IF toast THEN ToastError(f, onScreen) ELSE toastShown
     /\ lastOp' = Op(IF stillPending THEN "pollAgain" ELSE "pollFinal", f, DOMAIN freshStatus)
     /\ UNCHANGED << expandedFolders, loadingFolders, kbId, delVars, now, rowSelection, rootVars >>

\* collapseAllFolders
CollapseAllFolders ==
  /\ expandedFolders' = {}
  /\ loadingFolders' = {}
  /\ errorToastShown' = {}
  /\ lastOp' = Op("collapseAllFolders", NoFolder, {})
  /\ UNCHANGED << cache, procs, kbId, delVars, toastShown, now, rowSelection, rootVars >>

\* Time passes.
AdvanceTime ==
  /\ now + TimeStep <= MaxNow
  /\ now' = now + TimeStep
  /\ lastOp' = Op("advanceTime", NoFolder, {})
  /\ UNCHANGED << treeVars, kbId, delVars, toastShown, rowSelection, rootVars >>

\* ------------------------------------- useKnowledgeBaseStatus: operations
NoData == [present |-> FALSE, data |-> EmptyMap]

\* A response of listKBResources(kbId): it throws, or it returns root-level
\* resources, each with a status or none (a directory never has one).
RootResponses == Responses(Root)

RootFiles(data) ==
  {id \in DOMAIN data : RowOf(Drive(Root), id).type = "file"}
RootUnsettled(data) ==
  \E id \in RootFiles(data) : data[id] \in {"pending", "pending_delete"}
RootErrors(data) == {id \in RootFiles(data) : data[id] = "error"}

\* The effect on kbResources, in the current source (part_002) and in the
\* earlier one (part_003): what it leaves in shouldPoll, and whether it calls
\* toast.error. The earlier one has no toast and no stop on settled files.
PollEffect(v, data, poll, shown, pollingDuration) ==
  IF DOMAIN data = {} \/ RootFiles(data) = {}
    THEN [shouldPoll |-> FALSE, toast |-> FALSE]
    ELSE LET toast == v = "current" /\ RootErrors(data) # {} /\ ~shown
         IN IF pollingDuration > MAX_POLL_DURATION
              THEN [shouldPoll |-> FALSE, toast |-> toast]
              ELSE IF v = "current" /\ ~RootUnsettled(data)
                THEN [shouldPoll |-> FALSE, toast |-> toast]
                ELSE [shouldPoll |-> poll, toast |-> toast]

RootQueryDueWhenInvalidated ==
  /\ kbId # NoKB
  /\ \/ shouldPoll /\ (rootPolledAt = -1 \/ now >= rootPolledAt + POLL_INTERVAL)
     \/ kbInvalidated

\* The query is enabled with a knowledge base and shouldPoll; while enabled it
\* fetches at once, again when it is invalidated, and every POLL_INTERVAL.
RootQueryDue ==
  /\ kbId # NoKB
  /\ shouldPoll
  /\ rootPolledAt = -1 \/ kbInvalidated \/ now >= rootPolledAt + POLL_INTERVAL

\* One fetch of the root query answers, and the effect runs on its data. A
\* failed fetch leaves the data; a result equal to the data held may keep its
\* reference (sameRef), and the effect then does not run.
RootFetched(resp, sameRef, onScreen) ==
  LET e == PollEffect(variant, resp.data, shouldPoll, hasShownErrorToast,
                      now - pollingStartTime)
      runs == resp.ok /\ ~sameRef
  IN /\ RootQueryDue
     /\ sameRef => (resp.ok /\ kbResources.present /\ kbResources.data = resp.data)
     /\ IF runs /\ e.toast THEN CanBeOnScreen("kb", onScreen) ELSE ~onScreen
     /\ rootPolledAt' = now
     /\ kbResources' = IF resp.ok THEN [present |-> TRUE, data |-> resp.data] ELSE kbResources
     /\ shouldPoll' = IF runs THEN e.shouldPoll ELSE shouldPoll
     /\ hasShownErrorToast' = IF runs /\ e.toast THEN TRUE ELSE hasShownErrorToast
     /\ toastShown' = IF runs /\ e.toast THEN ToastError("kb", onScreen) ELSE toastShown
     /\ lastOp' = Op(IF resp.ok THEN "rootFetched" ELSE "rootFailed", "kb", DOMAIN resp.data)
     /\ kbInvalidated' = IF resp.ok THEN FALSE ELSE kbInvalidated
     /\ UNCHANGED << treeVars, kbId, isDeleting, deletingFiles, batch, overlap, now, rowSelection,
                     variant, pollingStartTime, pollBegan >>

\* createKBMutation.onSuccess: setCurrentKB(kb). The hook stays mounted; its
\* query gets a new key and is enabled.
ActivateKB ==
  /\ kbId = NoKB
  /\ kbId' = KB
  /\ kbResources' = NoData
  /\ rootPolledAt' = -1
  /\ pollBegan' = now
  /\ lastOp' = Op("activateKB", "kb", {})
  /\ UNCHANGED << treeVars, isDeleting, deletingFiles, batch, overlap, kbInvalidated, toastShown, now, rowSelection, variant, shouldPoll,
                  pollingStartTime, hasShownErrorToast >>

\* ---------------------------------------------- useFileSelection: operations
\* The files handed to useFileSelection: the flattened list of the tree.
SelectionFiles == FlatFiles

\* f.name.startsWith(dir.name + "/"), on path segments.
StartsWithDir(name, dirName) ==
  /\ Len(name) > Len(dirName)
  /\ SubSeq(name, 1, Len(dirName)) = dirName

\* fileRelationships.childrenMap.get(id) || []
ChildrenOf(files, id) ==
  IF id \in RowIds(files) /\ RowOf(files, id).type = "directory"
    THEN LET dir == RowOf(files, id)
             hits == {i \in 1..Len(files) : StartsWithDir(files[i].name, dir.name)}
             RECURSIVE Ids(_)
             Ids(from) == IF from > Len(files) THEN << >>
                          ELSE (IF from \in hits THEN << files[from].id >> ELSE << >>)
                               \o Ids(from + 1)
         IN Ids(1)
    ELSE << >>

RECURSIVE Bfs(_, _, _)
\* getAllDescendantIds, the loop: take the head of the queue, append its
\* children to the descendants and to the queue.
Bfs(files, queue, descendants) ==
  IF Len(queue) = 0 THEN descendants
  ELSE LET children == ChildrenOf(files, Head(queue))
       IN Bfs(files, Tail(queue) \o children, descendants \o children)

GetAllDescendantIds(files, fileId) == Bfs(files, << fileId >>, << >>)

SeqToSet(q) == {q[i] : i \in 1..Len(q)}

NodeIds == {"D", "E", "a", "b", "r"}

HandleRowSelectionKeepsChildren(fileId, isSelected) ==
  /\ rowSelection' =
       IF fileId \notin RowIds(SelectionFiles) THEN rowSelection
       ELSE IF isSelected
         THEN rowSelection \cup {fileId} \cup SeqToSet(GetAllDescendantIds(SelectionFiles, fileId))
         ELSE rowSelection \ {fileId}
  /\ lastOp' = Op(IF isSelected THEN "select" ELSE "deselect", fileId, {})
  /\ UNCHANGED << treeVars, kbId, delVars, toastShown, now, rootVars >>

HandleRowSelectionWithParent(fileId, isSelected) ==
  LET files == SelectionFiles
      parents == {d \in RowIds(files) : fileId \in SeqToSet(ChildrenOf(files, d))}
      ids == {fileId} \cup parents
             \cup (IF fileId \in RowIds(files) /\ RowOf(files, fileId).type = "directory"
                     THEN SeqToSet(GetAllDescendantIds(files, fileId)) ELSE {})
  IN /\ rowSelection' =
          IF fileId \notin RowIds(files) THEN rowSelection
          ELSE IF isSelected THEN rowSelection \cup ids ELSE rowSelection \ ids
     /\ lastOp' = Op(IF isSelected THEN "select" ELSE "deselect", fileId, {})
     /\ UNCHANGED << treeVars, kbId, delVars, toastShown, now, rootVars >>

\* handleRowSelection: nothing for an id that is no row; else the id and, for a
\* directory, its descendants are added or deleted. rowSelection holds the ids
\* with an entry.
HandleRowSelection(fileId, isSelected) ==
  LET files == SelectionFiles
      ids == {fileId}
             \cup (IF fileId \in RowIds(files) /\ RowOf(files, fileId).type = "directory"
                     THEN SeqToSet(GetAllDescendantIds(files, fileId)) ELSE {})
  IN /\ rowSelection' =
          IF fileId \notin RowIds(files) THEN rowSelection
          ELSE IF isSelected THEN rowSelection \cup ids ELSE rowSelection \ ids
     /\ lastOp' = Op(IF isSelected THEN "select" ELSE "deselect", fileId, {})
     /\ UNCHANGED << treeVars, kbId, delVars, toastShown, now, rootVars >>

HandleSelectAllKeepsPrevious(isSelected, rows) ==
  /\ rowSelection' = IF isSelected THEN rowSelection \cup rows ELSE rowSelection \ rows
  /\ lastOp' = Op(IF isSelected THEN "selectAll" ELSE "deselectAll", "rows", rows)
  /\ UNCHANGED << treeVars, kbId, delVars, toastShown, now, rootVars >>

\* handleSelectAll: a new selection holding the ids of the rows given, or nothing.
HandleSelectAll(isSelected, rows) ==
  /\ rowSelection' = IF isSelected THEN rows ELSE {}
  /\ lastOp' = Op(IF isSelected THEN "selectAll" ELSE "deselectAll", "rows", rows)
  /\ UNCHANGED << treeVars, kbId, delVars, toastShown, now, rootVars >>

\* ------------------------------------ useKnowledgeBaseDeletion: operations
\* sel: the selectedIds given; plan: uniqueFiles; sent: the ids whose delete
\* request was issued, in order; results: the success of the requests answered.
NoBatch == [active |-> FALSE, sel |-> << >>, plan |-> << >>, sent |-> << >>, results |-> << >>]

IdsOf(files) == [i \in 1..Len(files) |-> files[i].id]

\* allFiles.filter(file, indexed, under the folder's name)
IndexedFilesInFolder(allFiles, item) ==
  LET Test(file) == /\ file.type = "file"
                    /\ file.status = "indexed"
                    /\ StartsWithDir(file.name, item.name)
  IN IdsOf(SelectSeq(allFiles, Test))

RECURSIVE FilesToDeleteAnyStatus(_, _)
FilesToDeleteAnyStatus(selectedIds, allFiles) ==
  IF Len(selectedIds) = 0 THEN << >>
  ELSE LET id == Head(selectedIds)
           Test(file) == file.type = "file" /\ StartsWithDir(file.name, RowOf(allFiles, id).name)
           found ==
             IF id \notin RowIds(allFiles) THEN << >>
             ELSE IF RowOf(allFiles, id).type = "file"
               THEN (IF RowOf(allFiles, id).status = "indexed" THEN << id >> ELSE << >>)
               ELSE IdsOf(SelectSeq(allFiles, Test))
       IN found \o FilesToDeleteAnyStatus(Tail(selectedIds), allFiles)

RECURSIVE FilesToDelete(_, _)
\* filesToDelete: for each selected id that is in allFiles, in order: an indexed
\* file itself, or a directory's indexed files.
FilesToDelete(selectedIds, allFiles) ==
  IF Len(selectedIds) = 0 THEN << >>
  ELSE LET id == Head(selectedIds)
           found ==
             IF id \notin RowIds(allFiles) THEN << >>
             ELSE LET item == RowOf(allFiles, id)
                  IN IF item.type = "file" /\ item.status = "indexed" THEN << id >>
                     ELSE IF item.type = "directory" THEN IndexedFilesInFolder(allFiles, item)
                     ELSE << >>
       IN found \o FilesToDelete(Tail(selectedIds), allFiles)

UniqueFilesKeepsDuplicates(filesToDelete) == filesToDelete

\* uniqueFiles: the first occurrence of each id.
UniqueFiles(filesToDelete) ==
  LET Test(i) == \A j \in 1..(i - 1) : filesToDelete[j] # filesToDelete[i]
      RECURSIVE Keep(_)
      Keep(i) == IF i > Len(filesToDelete) THEN << >>
                 ELSE (IF Test(i) THEN << filesToDelete[i] >> ELSE << >>) \o Keep(i + 1)
  IN Keep(1)

\* deleteSelectedFiles(selectedIds, files) in FilePicker: files is the
\* flattened list of the tree.
AllFiles == FlatFiles

\* The selectedIds handed in: the ids of the selection, in any order.
SelectedIds ==
  LET n == Cardinality(rowSelection)
  IN {q \in [1..n -> rowSelection] : \A i, j \in 1..n : q[i] = q[j] => i = j}

DeleteSelectedFilesMarksEmpty(selectedIds) ==
  LET uniqueFiles == UniqueFiles(FilesToDelete(selectedIds, AllFiles))
  IN /\ ~isDeleting
     /\ isDeleting' = (kbId # NoKB)
     /\ IF kbId = NoKB \/ Len(uniqueFiles) = 0
          THEN UNCHANGED << deletingFiles, batch >>
          ELSE /\ deletingFiles' = deletingFiles \cup {uniqueFiles[1]}
               /\ batch' = [active |-> TRUE, sel |-> selectedIds, plan |-> uniqueFiles,
                            sent |-> << uniqueFiles[1] >>, results |-> << >>]
     /\ lastOp' = Op("deleteSelectedFiles", "kb", SeqToSet(selectedIds))
     /\ UNCHANGED << treeVars, kbId, overlap, kbInvalidated, toastShown, now, rowSelection, rootVars >>

DeleteSelectedFilesSendsAll(selectedIds) ==
  LET uniqueFiles == UniqueFiles(FilesToDelete(selectedIds, AllFiles))
  IN /\ ~isDeleting
     /\ IF kbId = NoKB \/ Len(uniqueFiles) = 0
          THEN UNCHANGED << isDeleting, deletingFiles, batch >>
          ELSE /\ isDeleting' = TRUE
               /\ deletingFiles' = deletingFiles \cup SeqToSet(uniqueFiles)
               /\ batch' = [active |-> TRUE, sel |-> selectedIds, plan |-> uniqueFiles,
                            sent |-> uniqueFiles, results |-> << >>]
     /\ lastOp' = Op("deleteSelectedFiles", "kb", SeqToSet(selectedIds))
     /\ UNCHANGED << treeVars, kbId, overlap, kbInvalidated, toastShown, now, rowSelection, rootVars >>

\* deleteSelectedFiles, and for a non-empty plan the start of mutationFn up to
\* its first await: the first candidate is marked and its request is issued.
\* The table is in its loading state while a deletion runs.
DeleteSelectedFiles(selectedIds) ==
  LET uniqueFiles == UniqueFiles(FilesToDelete(selectedIds, AllFiles))
  IN /\ ~isDeleting
     /\ ~batch.active
     /\ IF kbId = NoKB \/ Len(uniqueFiles) = 0
          THEN UNCHANGED << isDeleting, deletingFiles, batch >>
          ELSE /\ isDeleting' = TRUE
               /\ deletingFiles' = deletingFiles \cup {uniqueFiles[1]}
               /\ batch' = [active |-> TRUE, sel |-> selectedIds, plan |-> uniqueFiles,
                            sent |-> << uniqueFiles[1] >>, results |-> << >>]
     /\ lastOp' = Op("deleteSelectedFiles", "kb", SeqToSet(selectedIds))
     /\ UNCHANGED << treeVars, kbId, overlap, kbInvalidated, toastShown, now, rowSelection, rootVars >>

\* onSuccess: the knowledge-base queries are invalidated and every
\* ["drive-files", ...] entry is removed.
OnSuccess ==
  /\ kbInvalidated' = TRUE
  /\ cache' = [f \in Folders |-> Absent]
  /\ isDeleting' = FALSE

DeleteAnsweredKeepsMarkOnFailure(ok) ==
  LET cur == batch.sent[Len(batch.sent)]
      last == Len(batch.sent) = Len(batch.plan)
      cleared == IF ok THEN deletingFiles \ {cur} ELSE deletingFiles
  IN /\ batch.active
     /\ IF last
          THEN /\ deletingFiles' = cleared
               /\ batch' = [batch EXCEPT !.active = FALSE, !.results = Append(@, ok)]
               /\ OnSuccess
          ELSE /\ deletingFiles' = cleared \cup {batch.plan[Len(batch.sent) + 1]}
               /\ batch' = [batch EXCEPT !.results = Append(@, ok),
                                         !.sent = Append(@, batch.plan[Len(batch.sent) + 1])]
               /\ UNCHANGED << cache, isDeleting, kbInvalidated >>
     /\ lastOp' = Op(IF last THEN "batchDone" ELSE "deleteAnswered", cur, {})
     /\ UNCHANGED << expandedFolders, loadingFolders, errorToastShown, procs, kbId, overlap,
                     toastShown, now, rowSelection, rootVars >>

DeleteAnsweredStopsOnFailure(ok) ==
  LET cur == batch.sent[Len(batch.sent)]
      last == Len(batch.sent) = Len(batch.plan)
  IN /\ batch.active
     /\ IF last \/ ~ok
          THEN /\ deletingFiles' = deletingFiles \ {cur}
               /\ batch' = [batch EXCEPT !.active = FALSE, !.results = Append(@, ok)]
               /\ IF ok THEN OnSuccess
                        ELSE isDeleting' = FALSE /\ UNCHANGED << cache, kbInvalidated >>
          ELSE /\ deletingFiles' = (deletingFiles \ {cur}) \cup {batch.plan[Len(batch.sent) + 1]}
               /\ batch' = [batch EXCEPT !.results = Append(@, ok),
                                         !.sent = Append(@, batch.plan[Len(batch.sent) + 1])]
               /\ UNCHANGED << cache, isDeleting, kbInvalidated >>
     /\ lastOp' = Op(IF last \/ ~ok THEN "batchDone" ELSE "deleteAnswered", cur, {})
     /\ UNCHANGED << expandedFolders, loadingFolders, errorToastShown, procs, kbId, overlap,
                     toastShown, now, rowSelection, rootVars >>

\* mutationFn from the answer of one deleteKBResource call to the next await:
\* the result is recorded, the mark is cleared, and either the next candidate
\* is marked and requested or the loop ends and onSuccess runs.
DeleteAnswered(ok) ==
  LET cur == batch.sent[Len(batch.sent)]
      last == Len(batch.sent) = Len(batch.plan)
  IN /\ batch.active
     /\ IF last
          THEN /\ deletingFiles' = deletingFiles \ {cur}
               /\ batch' = [batch EXCEPT !.active = FALSE, !.results = Append(@, ok)]
               /\ OnSuccess
          ELSE /\ deletingFiles' = (deletingFiles \ {cur}) \cup {batch.plan[Len(batch.sent) + 1]}
               /\ batch' = [batch EXCEPT !.results = Append(@, ok),
                                         !.sent = Append(@, batch.plan[Len(batch.sent) + 1])]
               /\ UNCHANGED << cache, isDeleting, kbInvalidated >>
     /\ lastOp' = Op(IF last THEN "batchDone" ELSE "deleteAnswered", cur, {})
     /\ UNCHANGED << expandedFolders, loadingFolders, errorToastShown, procs, kbId, overlap,
                     toastShown, now, rowSelection, rootVars >>

\* deleteSelectedFiles called while an earlier batch is running: the hook has
\* no check of its own, so mutate starts a second run of mutationFn beside the
\* first, over the files listed now.
DeleteSelectedFilesDuringBatch(selectedIds) ==
  LET uniqueFiles == UniqueFiles(FilesToDelete(selectedIds, AllFiles))
  IN /\ batch.active
     /\ ~overlap.active
     /\ IF kbId = NoKB \/ Len(uniqueFiles) = 0
          THEN UNCHANGED << isDeleting, deletingFiles, overlap >>
          ELSE /\ isDeleting' = TRUE
               /\ deletingFiles' = deletingFiles \cup {uniqueFiles[1]}
               /\ overlap' = [active |-> TRUE, sel |-> selectedIds, plan |-> uniqueFiles,
                              sent |-> << uniqueFiles[1] >>, results |-> << >>]
     /\ lastOp' = Op("deleteSelectedFilesDuringBatch", "kb", SeqToSet(selectedIds))
     /\ UNCHANGED << treeVars, kbId, batch, kbInvalidated, toastShown, now, rowSelection, rootVars >>

\* The second run's request is answered: the same loop and onSuccess.
OverlapAnswered(ok) ==
  LET cur == overlap.sent[Len(overlap.sent)]
      last == Len(overlap.sent) = Len(overlap.plan)
  IN /\ overlap.active
     /\ IF last
          THEN /\ deletingFiles' = deletingFiles \ {cur}
               /\ overlap' = [overlap EXCEPT !.active = FALSE, !.results = Append(@, ok)]
               /\ OnSuccess
          ELSE /\ deletingFiles' = (deletingFiles \ {cur}) \cup {overlap.plan[Len(overlap.sent) + 1]}
               /\ overlap' = [overlap EXCEPT !.results = Append(@, ok),
                                             !.sent = Append(@, overlap.plan[Len(overlap.sent) + 1])]
               /\ UNCHANGED << cache, isDeleting, kbInvalidated >>
     /\ lastOp' = Op(IF last THEN "overlapDone" ELSE "overlapAnswered", cur, {})
     /\ UNCHANGED << expandedFolders, loadingFolders, errorToastShown, procs, kbId, batch,
                     toastShown, now, rowSelection, rootVars >>

\* The root query, whose entry was removed, fetches the root listing again.
RootFilesFetched ==
  /\ ~cache[Root].present
  /\ cache' = [cache EXCEPT ![Root] = Entry(Drive(Root))]
  /\ lastOp' = Op("rootFilesFetched", Root, {})
  /\ UNCHANGED << expandedFolders, loadingFolders, errorToastShown, procs, kbId, delVars,
                  toastShown, now, rowSelection, rootVars >>

\* ------------------------------------------------------- specifications
InitCommon ==
  /\ cache = [f \in Folders |-> IF f = Root THEN Entry(Drive(Root)) ELSE Absent]
  /\ expandedFolders = {}
  /\ loadingFolders = {}
  /\ errorToastShown = {}
  /\ procs = EmptyBag
  /\ toastShown = [id \in ToastIds |-> 0]
  /\ now = 0
  /\ rowSelection = {}
  /\ shouldPoll = TRUE
  /\ pollingStartTime = 0
  /\ hasShownErrorToast = FALSE
  /\ kbResources = [present |-> FALSE, data |-> EmptyMap]
  /\ rootPolledAt = -1
  /\ pollBegan = 0
  /\ isDeleting = FALSE
  /\ deletingFiles = {}
  /\ batch = NoBatch
  /\ overlap = NoBatch
  /\ kbInvalidated = FALSE
  /\ lastOp = Op("init", NoFolder, {})

\* The user's and the drive's part of the file tree: the folders in dirs are
\* toggled, fragment fetches answer.
TreeNext(dirs) ==
  \/ \E f \in dirs : ToggleFolder(f)
  \/ \E p \in Calls, o \in {"hit", "fetched", "failed"} : FragmentFetched(p, o)

\* The knowledge base's part: status fetches answer, poll timers fire.
StatusNext ==
  \/ \E p \in Calls, onScreen \in BOOLEAN :
       \E resp \in Responses(p.f) : StatusFetched(p, resp, onScreen)
  \/ \E p \in Calls, onScreen \in BOOLEAN :
       \E resp \in Responses(p.f) : PollFolderStatus(p, resp, onScreen)

\* Spec: the file tree with an active knowledge base; the user works on
\* folder D (expands, collapses, collapse-all).
Init ==
  /\ InitCommon
  /\ variant = "current"
  /\ kbId = KB

Next ==
  \/ TreeNext({"D"})
  \/ StatusNext
  \/ CollapseAllFolders

Spec == Init /\ [][Next]_vars

\* SpecTimed: the same without collapse-all, with the clock running.
NextTimed ==
  \/ TreeNext({"D"})
  \/ StatusNext
  \/ AdvanceTime

SpecTimed == Init /\ [][NextTimed]_vars

\* SpecRoot: the root-level status poll, built from either source, with a
\* knowledge base restored at mount or created later in the session.
InitRoot ==
  /\ InitCommon
  /\ variant \in {"current", "earlier"}
  /\ kbId \in {NoKB, KB}

NextRoot ==
  \/ ActivateKB
  \/ \E resp \in RootResponses, sameRef \in BOOLEAN, onScreen \in BOOLEAN :
       RootFetched(resp, sameRef, onScreen)
  \/ AdvanceTime

SpecRoot == InitRoot /\ [][NextRoot]_vars

\* SpecSel: selection over the file tree, before a knowledge base exists.
InitSel ==
  /\ InitCommon
  /\ variant = "current"
  /\ kbId = NoKB

NextSel ==
  \/ TreeNext(DirIds)
  \/ \E id \in NodeIds, isSelected \in BOOLEAN : HandleRowSelection(id, isSelected)
  \/ \E rows \in SUBSET NodeIds, isSelected \in BOOLEAN : HandleSelectAll(isSelected, rows)

SpecSel == InitSel /\ [][NextSel]_vars

\* SpecDel: a deletion session. The tree was expanded before (both fragments
\* are cached, with the statuses their merges left), some folders are expanded
\* now, up to MaxSelected nodes are selected, no expansion is in flight.
FileStatus == KnownStatus \cup {"unknown", "absent"}

WithStatus(files, st) ==
  [i \in 1..Len(files) |->
     IF files[i].type = "file" THEN [files[i] EXCEPT !.status = st] ELSE files[i]]

InitDel ==
  /\ kbId \in {NoKB, KB}
  /\ \E sa \in FileStatus, sb \in FileStatus :
       /\ kbId = NoKB => (sa = "absent" /\ sb = "absent")
       /\ cache = [f \in Folders |->
                     CASE f = Root -> Entry(Drive(Root))
                       [] f = "D" -> Entry(WithStatus(Drive("D"), sa))
                       [] f = "E" -> Entry(WithStatus(Drive("E"), sb))]
  /\ kbResources \in
       IF kbId = NoKB THEN {NoData}
       ELSE {[present |-> TRUE, data |-> m] :
               m \in {EmptyMap} \cup {[x \in {"r"} |-> st] : st \in RespStatus}}
  /\ shouldPoll = (kbId = NoKB \/ RootUnsettled(kbResources.data))
  /\ expandedFolders \in SUBSET DirIds
  /\ rowSelection \in {S \in SUBSET NodeIds : Cardinality(S) <= MaxSelected}
  /\ loadingFolders = {}
  /\ errorToastShown = {}
  /\ procs = EmptyBag
  /\ toastShown = [id \in ToastIds |-> 0]
  /\ now = 0
  /\ variant = "current"
  /\ pollingStartTime = 0
  /\ hasShownErrorToast = FALSE
  /\ rootPolledAt = 0
  /\ pollBegan = 0
  /\ isDeleting = FALSE
  /\ deletingFiles = {}
  /\ batch = NoBatch
  /\ overlap = NoBatch
  /\ kbInvalidated = FALSE
  /\ lastOp = Op("init", NoFolder, {})

NextDel ==
  \/ \E selectedIds \in SelectedIds : DeleteSelectedFiles(selectedIds)
  \/ \E ok \in BOOLEAN : DeleteAnswered(ok)
  \/ RootFilesFetched

SpecDel == InitDel /\ [][NextDel]_vars

\* ------------------------------------------------------------ properties
Unsettled(files) == HasStatus(files, "pending") \/ HasStatus(files, "pending_delete")

\* A step is the end of the status fetch of call p (in toggleFolder or in a
\* poll tick) answered by resp.
MergeStepOf(p, resp) ==
  \E onScreen \in BOOLEAN :
    StatusFetched(p, resp, onScreen) \/ PollFolderStatus(p, resp, onScreen)

\* C1 (as amended): in every merge of a fetched status map into a folder's
\* fragment, a node whose id is missing from the map keeps its status, and a
\* known status becomes unknown only where the map itself holds unknown for
\* that node's id (the backend listed the resource without a status).
C1_MergeKeepsUnlistedStatus ==
  [][\A p \in Calls : \A resp \in Responses(p.f) :
       MergeStepOf(p, resp) =>
         LET map == FetchKBStatusForFolder(p.kb, resp)
             old == cache[p.f].data
             new == cache'[p.f].data
         IN /\ Len(new) = Len(old)
            /\ \A i \in 1..Len(old) :
                 /\ old[i].id \notin DOMAIN map => new[i].status = old[i].status
                 /\ (old[i].status \in KnownStatus /\ new[i].status = "unknown")
                      => (old[i].id \in DOMAIN map /\ map[old[i].id] = "unknown")]_vars

\* C1 witness: a merge of a partial map (it lists only the directory E) has just
\* run on D's fragment, and the file a, missing from it, holds a known status.
C1_Witness ==
  /\ lastOp.op \in {"statusFetched", "pollFinal"}
  /\ lastOp.f = "D"
  /\ lastOp.ids = {"E"}
  /\ \E i \in 1..Len(cache["D"].data) :
       cache["D"].data[i].id = "a" /\ cache["D"].data[i].status \in KnownStatus

\* C1 as claimed: for any backend response, no merge changes a known status to
\* unknown.
C1_Original ==
  [][\A p \in Calls : \A resp \in Responses(p.f) :
       MergeStepOf(p, resp) =>
         \A i \in 1..Len(cache[p.f].data) :
           ~ /\ cache[p.f].data[i].status \in KnownStatus
             /\ cache'[p.f].data[i].status = "unknown"]_vars

\* A poll tick of call p answered by resp.
TickOf(p, resp) == \E onScreen \in BOOLEAN : PollFolderStatus(p, resp, onScreen)
\* The chain of call p goes on after the step (its timer is set again).
Rescheduled(p) == CopiesIn(p, procs') >= CopiesIn(p, procs)
Elapsed(p) == now - p.start

\* C2: at every folder poll tick the chain stops when every file of the
\* fragment is indexed or error, and goes on while a file of the fragment is
\* pending or pending_delete and the time bound has not passed, whatever the
\* fetch answered; toggleFolder starts the chain on the same condition.
C2_PollsWhileUnsettled ==
  [][\A p \in Calls : \A resp \in Responses(p.f) :
       /\ (TickOf(p, resp) /\ Elapsed(p) >= POLL_INTERVAL) =>
            /\ ~Unsettled(cache'[p.f].data) => ~Rescheduled(p)
            /\ (Unsettled(cache'[p.f].data) /\ Elapsed(p) <= MAX_POLL_DURATION)
                 => Rescheduled(p)
       /\ (\E onScreen \in BOOLEAN : StatusFetched(p, resp, onScreen)) =>
            (Unsettled(cache'[p.f].data)
               <=> \E q \in BagToSet(procs') : q.pc = "timer" /\ q.f = p.f)]_vars

\* C3: a tick that runs after the maximum poll duration has passed since its
\* chain started does not set the timer again.
C3_ChainEndsAfterMaxDuration ==
  [][\A p \in Calls : \A resp \in Responses(p.f) :
       (TickOf(p, resp) /\ Elapsed(p) > MAX_POLL_DURATION) => ~Rescheduled(p)]_vars

\* C6: the failure notification of a folder is displayed at most once, and
\* once when its fragment holds an error file.
C6_OneNotificationPerFolder ==
  \A f \in DirIds :
    /\ toastShown[f] <= 1
    /\ (cache[f].present /\ HasStatus(cache[f].data, "error")) => toastShown[f] = 1

\* C7: a tick past the maximum duration whose fetch still reports only pending
\* files ends the chain and displays no notification, and a notification is
\* displayed only when the fragment holds an error file.
C7_TimeoutStopsSilently ==
  [][\A p \in Calls : \A resp \in Responses(p.f) :
       TickOf(p, resp) =>
         /\ toastShown'[p.f] # toastShown[p.f] => HasStatus(cache'[p.f].data, "error")
         /\ ( /\ Elapsed(p) > MAX_POLL_DURATION
              /\ resp.ok
              /\ "pending" \in RangeOf(resp.data)
              /\ \A id \in DOMAIN resp.data : resp.data[id] \in {"pending", "absent"} )
            => (~Rescheduled(p) /\ toastShown' = toastShown)]_vars

\* C4: the root poll stops after the first result with no files or with no
\* pending/pending_delete file, in either source, and an unsettled knowledge
\* base is dropped only after the maximum duration.
C4_RootSettleAndStop ==
  /\ (kbResources.present /\ ~RootUnsettled(kbResources.data)) => ~shouldPoll
  /\ (~shouldPoll /\ kbResources.present /\ RootUnsettled(kbResources.data))
       => now - pollingStartTime > MAX_POLL_DURATION

\* C5: a knowledge base whose files are still pending is dropped by the root
\* poll only when more than the maximum duration has passed since its own
\* polling began.
C5_TimeoutFromPollingStart ==
  (kbId # NoKB /\ ~shouldPoll /\ kbResources.present /\ RootUnsettled(kbResources.data))
    => now - pollBegan > MAX_POLL_DURATION

\* ------------------------------------------------- selection propagation
\* The folder whose listing holds node n, and the folders above n, from the drive.
ParentOf(n) == CHOOSE f \in Folders : n \in RowIds(Drive(f))
RECURSIVE Ancestors(_)
Ancestors(n) == IF ParentOf(n) = Root THEN {} ELSE {ParentOf(n)} \cup Ancestors(ParentOf(n))
DriveDescendants(d) == {n \in NodeIds : d \in Ancestors(n)}

\* n is a row of the table: every folder above it is cached, expanded and not loading.
IsRow(n) ==
  /\ cache[Root].present
  /\ \A d \in Ancestors(n) : cache[d].present /\ d \in expandedFolders /\ d \notin loadingFolders
\* n is in the tree cache: the fragment of its folder is held.
IsCached(n) == cache[ParentOf(n)].present

\* The rows whose name starts with the name of row d followed by "/".
Prefixed(d) ==
  LET files == SelectionFiles
  IN {files[i].id : i \in {j \in 1..Len(files) : StartsWithDir(files[j].name, RowOf(files, d).name)}}

IsDirectoryRow(d) ==
  d \in RowIds(SelectionFiles) /\ RowOf(SelectionFiles, d).type = "directory"

\* C8: handleRowSelection(D, true) on a directory row adds exactly D and the
\* rows named under D, at any depth; handleRowSelection(D, false) removes
\* exactly these; every other membership is unchanged.
C8_DirectorySelectionExact ==
  [][\A d \in NodeIds : \A isSelected \in BOOLEAN :
       (HandleRowSelection(d, isSelected) /\ IsDirectoryRow(d))
         => rowSelection' = IF isSelected THEN rowSelection \cup ({d} \cup Prefixed(d))
                            ELSE rowSelection \ ({d} \cup Prefixed(d))]_vars

C8_Witness ==
  /\ lastOp = Op("select", "D", {})
  /\ RowIds(SelectionFiles) = NodeIds
  /\ rowSelection = {"D", "E", "a", "b"}

\* C9 (as amended): selecting a directory marks those of its descendants that
\* are rows of the table; a descendant held in the tree cache under a
\* collapsed or loading sub-folder is not marked and keeps its membership.
C9_MarksVisibleDescendants ==
  [][\A d \in NodeIds :
       (HandleRowSelection(d, TRUE) /\ IsDirectoryRow(d))
         => \A n \in DriveDescendants(d) :
              /\ (IsRow(n) => n \in rowSelection')
              /\ (~IsRow(n) => (n \in rowSelection' <=> n \in rowSelection))]_vars

C9_Witness ==
  /\ lastOp = Op("select", "D", {})
  /\ IsCached("b") /\ ~IsRow("b") /\ "E" \notin loadingFolders
  /\ IsRow("a")
  /\ "a" \in rowSelection
  /\ "b" \notin rowSelection

\* C9 as stated: selecting a directory marks every descendant held in the
\* tree cache, also under a collapsed sub-folder.
C9_Original ==
  [][\A d \in NodeIds :
       (HandleRowSelection(d, TRUE) /\ IsDirectoryRow(d))
         => \A n \in DriveDescendants(d) : IsCached(n) => n \in rowSelection']_vars

\* C10: handleRowSelection(n, b) leaves the membership of every id that is
\* neither n nor below n as it was; no ancestor is marked or unmarked.
C10_NoUpwardPropagation ==
  [][\A n \in NodeIds : \A isSelected \in BOOLEAN :
       HandleRowSelection(n, isSelected)
         => \A m \in NodeIds \ ({n} \cup DriveDescendants(n)) :
              m \in rowSelection' <=> m \in rowSelection]_vars

C10_Witness ==
  /\ lastOp = Op("deselect", "b", {})
  /\ IsRow("b")
  /\ {"D", "E"} \subseteq rowSelection
  /\ "b" \notin rowSelection

\* C11: handleSelectAll(true, rows) leaves exactly the ids of the rows given
\* in the selection, whatever it held; handleSelectAll(false, rows) leaves
\* it empty.
C11_SelectAllReplaces ==
  [][\A rows \in SUBSET NodeIds : \A isSelected \in BOOLEAN :
       HandleSelectAll(isSelected, rows)
         => \A n \in NodeIds : n \in rowSelection' <=> (isSelected /\ n \in rows)]_vars

\* C11 witness: select-all on the rows D and r has just run, with D fetched
\* earlier and collapsed now, and exactly D and r are selected.
C11_Witness ==
  /\ lastOp = Op("selectAll", "rows", {"D", "r"})
  /\ RowIds(SelectionFiles) = {"D", "r"}
  /\ cache["D"].present
  /\ rowSelection = {"D", "r"}

\* ------------------------------------------------------- deletion planner
NodeType(n) == RowOf(Drive(ParentOf(n)), n).type
\* The status a node shows: a root node's from the root rows, a nested node's
\* from its folder's fragment.
NodeStatus(n) ==
  IF ParentOf(n) = Root THEN RowOf(FlatFiles, n).status
  ELSE RowOf(cache[ParentOf(n)].data, n).status

\* The indexed files among the nodes in universe that are selected or lie
\* below a selected directory of universe.
Deletable(universe) ==
  {n \in universe :
     /\ NodeType(n) = "file"
     /\ NodeStatus(n) = "indexed"
     /\ \/ n \in rowSelection
        \/ \E d \in rowSelection \cap universe : d \in Ancestors(n)}

\* The step is deleteSelectedFiles with a knowledge base, and it plans exactly want.
PlansExactly(selectedIds, want) ==
  (DeleteSelectedFiles(selectedIds) /\ kbId # NoKB)
    => IF want = {} THEN batch' = batch
       ELSE batch'.active /\ SeqToSet(batch'.plan) = want

\* C12 (as amended): the plan of deleteSelectedFiles is exactly the indexed
\* files, among the rows of the flattened list it is given, that are selected
\* rows or lie below a selected directory row; a cached indexed file under a
\* collapsed folder is not planned; no directory and no file of another status
\* is planned.
C12_PlanIsIndexedRows ==
  [][\A selectedIds \in SelectedIds :
       PlansExactly(selectedIds, Deletable({n \in NodeIds : IsRow(n)}))]_vars

\* C12 witness: D is selected and expanded, E is collapsed; a and the hidden b
\* are indexed; the plan just made is a alone.
C12_Witness ==
  /\ lastOp.op = "deleteSelectedFiles"
  /\ batch.active /\ batch.sel = << "D" >> /\ batch.results = << >>
  /\ batch.plan = << "a" >>
  /\ expandedFolders = {"D"}
  /\ NodeStatus("a") = "indexed" /\ NodeStatus("b") = "indexed"

\* C12 as stated: the plan is exactly the indexed file nodes of the tree cache
\* that are selected or lie below a selected directory.
C12_Original ==
  [][\A selectedIds \in SelectedIds :
       PlansExactly(selectedIds, Deletable({n \in NodeIds : IsCached(n)}))]_vars

Rows == {n \in NodeIds : IsRow(n)}

\* C13: deleteSelectedFiles with no knowledge base, or with a selection that
\* yields no indexed file, issues no request and changes no state: isDeleting
\* stays false, nothing is marked deleting, no cache entry is touched.
C13_EmptyPlanDoesNothing ==
  [][\A selectedIds \in SelectedIds :
       (DeleteSelectedFiles(selectedIds) /\ (kbId = NoKB \/ Deletable(Rows) = {}))
         => /\ ~isDeleting'
            /\ deletingFiles' = {}
            /\ batch' = batch
            /\ cache' = cache
            /\ kbInvalidated' = kbInvalidated]_vars

\* C13 witness: with a knowledge base, the expanded D is selected, its file a
\* is pending; deleteSelectedFiles has just returned and nothing runs.
C13_Witness ==
  /\ lastOp = Op("deleteSelectedFiles", "kb", {"D"})
  /\ kbId = KB
  /\ expandedFolders = {"D"}
  /\ NodeStatus("a") = "pending"
  /\ ~isDeleting /\ deletingFiles = {} /\ batch = NoBatch

\* C14: in a batch no file is requested twice, and once the batch has ended
\* every candidate was requested and answered, whatever failed.
C14_OneRequestPerCandidate ==
  /\ \A i, j \in 1..Len(batch.sent) : batch.sent[i] = batch.sent[j] => i = j
  /\ SeqToSet(batch.sent) \subseteq SeqToSet(batch.plan)
  /\ (~batch.active /\ Len(batch.plan) > 0)
       => /\ SeqToSet(batch.sent) = SeqToSet(batch.plan)
          /\ Len(batch.results) = Len(batch.sent)

\* C14 witness: a and the directory D above it were selected; the batch has
\* ended with a requested once, and b requested after a's request failed.
C14_Witness ==
  /\ ~batch.active
  /\ batch.sel = << "a", "D" >>
  /\ batch.sent = << "a", "b" >>
  /\ batch.results = << FALSE, TRUE >>

\* The first selected id that brings file x into the plan.
Contributor(sel, x) ==
  CHOOSE k \in 1..Len(sel) :
    /\ sel[k] = x \/ sel[k] \in Ancestors(x)
    /\ \A m \in 1..(k - 1) : ~(sel[m] = x \/ sel[m] \in Ancestors(x))
PositionIn(files, x) == CHOOSE i \in 1..Len(files) : files[i].id = x

\* C15: at most one delete request is in flight, and the requests go out in
\* the order of the selected ids, a directory's files at its position and in
\* the list's order, a duplicate at its first position.
C15_SequentialInSelectionOrder ==
  /\ Len(batch.sent) - Len(batch.results) = IF batch.active THEN 1 ELSE 0
  /\ batch.active =>
       \A i, j \in 1..Len(batch.sent) :
         i < j =>
           LET ci == Contributor(batch.sel, batch.sent[i])
               cj == Contributor(batch.sel, batch.sent[j])
           IN \/ ci < cj
              \/ /\ ci = cj
                 /\ PositionIn(AllFiles, batch.sent[i]) < PositionIn(AllFiles, batch.sent[j])

\* C15 witness: r, then D were selected; r was requested and answered, then
\* D's files in list order: b answered, a in flight.
C15_Witness ==
  /\ batch.active
  /\ batch.sel = << "r", "D" >>
  /\ batch.sent = << "r", "b", "a" >>
  /\ batch.results = << TRUE, FALSE >>

\* isFileDeleting(fileId)
IsFileDeleting(fileId) == fileId \in deletingFiles

\* C16: a file is marked deleting exactly while its request is in flight;
\* after the batch nothing is marked.
C16_MarkedWhileInFlight ==
  \A n \in NodeIds :
    IsFileDeleting(n) <=> (batch.active /\ n = batch.sent[Len(batch.sent)])

\* C16 witness: the first request failed and its mark is gone; the second
\* candidate is in flight and marked.
C16_Witness ==
  /\ batch.active
  /\ batch.results = << FALSE >>
  /\ Len(batch.sent) = 2
  /\ ~IsFileDeleting(batch.sent[1])
  /\ IsFileDeleting(batch.sent[2])

\* C17: the answer to the last request of a batch, success or failure,
\* discards every fragment of the tree cache, invalidates the knowledge-base
\* queries and clears isDeleting; an earlier answer does none of these.
C17_DiscardAfterLastRequest ==
  [][\A ok \in BOOLEAN :
       DeleteAnswered(ok)
         => IF Len(batch.sent) = Len(batch.plan)
              THEN /\ \A f \in Folders : ~cache'[f].present
                   /\ kbInvalidated'
                   /\ ~isDeleting'
                   /\ Len(batch'.results) = Len(batch.plan)
              ELSE /\ cache' = cache
                   /\ kbInvalidated' = kbInvalidated
                   /\ isDeleting']_vars

\* C17 witness: a batch with a failed and a successful request has just
\* ended; no fragment is cached, root included.
C17_Witness ==
  /\ lastOp.op = "batchDone"
  /\ batch.results = << FALSE, TRUE >>
  /\ \A f \in Folders : ~cache[f].present
  /\ kbInvalidated
  /\ ~isDeleting

\* ------------------------------------------------------- tree materializer
RECURSIVE ChildrenJustified(_)
\* In this tree and below, a node with children is a directory that is
\* expanded, not loading and cached, and every node's own folder is cached.
ChildrenJustified(tree) ==
  \A i \in 1..Len(tree) :
    /\ IsCached(tree[i].id)
    /\ Len(tree[i].children) > 0
         => /\ tree[i].type = "directory"
            /\ tree[i].id \in expandedFolders
            /\ tree[i].id \notin loadingFolders
            /\ cache[tree[i].id].present
    /\ ChildrenJustified(tree[i].children)

\* C18: in the materialized tree a directory has children only if it is
\* expanded, not loading and its fragment is cached; no node of an unfetched
\* folder is materialized.
C18_ChildrenOnlyWhenExpanded == ChildrenJustified(FileTree)

\* C18 witness: D is expanded and has children; E is cached from an earlier
\* expansion, collapsed now, and has none.
C18_Witness ==
  /\ Len(FileTree[1].children) > 0
  /\ cache["E"].present /\ "E" \notin expandedFolders
  /\ RowOf(FlatFiles, "E").children = << >>

\* C19: in the flattened list the level of a row is its depth; a row below
\* the root follows its parent, with only the parent's descendants between
\* them; siblings are in their fragment's order.
C19_PreOrderWithLevels ==
  \A i \in 1..Len(FlatFiles) :
    LET row == FlatFiles[i]
    IN /\ row.level = Cardinality(Ancestors(row.id))
       /\ row.level > 0 =>
            \E j \in 1..(i - 1) :
              /\ FlatFiles[j].id = ParentOf(row.id)
              /\ FlatFiles[j].level = row.level - 1
              /\ \A k \in (j + 1)..(i - 1) : FlatFiles[j].id \in Ancestors(FlatFiles[k].id)
       /\ \A k \in (i + 1)..Len(FlatFiles) :
            ParentOf(FlatFiles[k].id) = ParentOf(row.id)
              => PositionIn(cache[ParentOf(row.id)].data, row.id)
                   < PositionIn(cache[ParentOf(row.id)].data, FlatFiles[k].id)

\* C19 witness: D and E are expanded; the rows are D, E, b, a, r.
C19_Witness == IdsOf(FlatFiles) = << "D", "E", "b", "a", "r" >>

\* C20: a failed fragment fetch leaves the tree cache as it was, ends the
\* call without a status fetch, leaves the folder unexpanded and not loading;
\* a failed status fetch leaves the fragment as it was and the folder becomes
\* expanded and not loading.
C20_FetchFailureKeepsCache ==
  [][\A p \in Calls :
       /\ FragmentFetched(p, "failed")
            => /\ cache' = cache
               /\ expandedFolders' = expandedFolders
               /\ p.f \notin loadingFolders'
               /\ procs' = Drop(procs, p)
       /\ \A onScreen \in BOOLEAN :
            StatusFetched(p, [ok |-> FALSE, data |-> EmptyMap], onScreen)
              => /\ cache'[p.f] = cache[p.f]
                 /\ p.f \in expandedFolders'
                 /\ p.f \notin loadingFolders']_vars

\* C20 witness: D's fragment, cached with a known status for a, has just
\* failed to refetch: it is still cached, D is neither expanded nor loading.
C20_Witness ==
  /\ lastOp = Op("fragmentFailed", "D", {})
  /\ cache["D"].present
  /\ \E i \in 1..Len(cache["D"].data) : cache["D"].data[i].status \in KnownStatus
  /\ "D" \notin expandedFolders
  /\ "D" \notin loadingFolders

C22_ExpansionOrder ==
  \A p \in Calls :
    p.pc \in {"fetchFragment", "fetchStatus"} =>
      /\ p.f \in loadingFolders
      /\ p.f \notin expandedFolders
      /\ p.pc = "fetchStatus" => cache[p.f].present

\* SpecLate: folder polls that outlive their fragments. D and E were expanded
\* while their files a and b were pending, so each has a poll chain running;
\* the root file r is indexed and selected. The chains tick, the user deletes
\* the selection (the finished batch discards every fragment), and the root
\* fragment is fetched again.
InitLate ==
  /\ kbId = KB
  /\ variant = "current"
  /\ cache = [f \in Folders |->
                IF f = Root THEN Entry(Drive(Root))
                ELSE Entry(WithStatus(Drive(f), "pending"))]
  /\ expandedFolders = DirIds
  /\ loadingFolders = {}
  /\ errorToastShown = {}
  /\ procs = SetToBag({Call("timer", f, GetFolderPath(Drive(f)), FALSE, KB, 0) : f \in DirIds})
  /\ toastShown = [id \in ToastIds |-> 0]
  /\ now = 0
  /\ rowSelection = {"r"}
  /\ kbResources = [present |-> TRUE, data |-> [x \in {"r"} |-> "indexed"]]
  /\ shouldPoll = FALSE
  /\ pollingStartTime = 0
  /\ hasShownErrorToast = FALSE
  /\ rootPolledAt = 0
  /\ pollBegan = 0
  /\ isDeleting = FALSE
  /\ deletingFiles = {}
  /\ batch = NoBatch
  /\ overlap = NoBatch
  /\ kbInvalidated = FALSE
  /\ lastOp = Op("init", NoFolder, {})

\* The poll timers fire.
PollNext ==
  \E p \in Calls, onScreen \in BOOLEAN :
    \E resp \in Responses(p.f) : PollFolderStatus(p, resp, onScreen)

NextLate ==
  \/ PollNext
  \/ NextDel

SpecLate == InitLate /\ [][NextLate]_vars

\* The ids, names and kinds of a fragment's nodes, in order.
Shape(entry) ==
  IF ~entry.present THEN << >>
  ELSE [i \in 1..Len(entry.data) |->
          << entry.data[i].id, entry.data[i].name, entry.data[i].type >>]

\* C23: a status merge for folder F (in toggleFolder or in a poll tick)
\* changes at most the status field of the nodes of F's own fragment: the
\* sequence of ids, names and kinds of F's fragment is as before, and every
\* other folder's fragment and the root fragment are as before, however the
\* merges of different folders' polls interleave.
C23_MergeTouchesOnlyStatus ==
  [][\A p \in Calls : \A resp \in Responses(p.f) :
       MergeStepOf(p, resp) =>
         /\ cache'[p.f].present = cache[p.f].present
         /\ Shape(cache'[p.f]) = Shape(cache[p.f])
         /\ \A g \in Folders \ {p.f} : cache'[g] = cache[g]]_vars

\* C23 witness: E's poll has just merged its last status into E's fragment
\* after D's poll merged into D's: both fragments hold a merged file status,
\* both keep the nodes the drive listed.
C23_Witness ==
  /\ lastOp.op = "pollFinal"
  /\ lastOp.f = "E"
  /\ cache["D"].present /\ cache["E"].present
  /\ RowOf(cache["D"].data, "a").status \in {"indexed", "error"}
  /\ RowOf(cache["E"].data, "b").status \in {"indexed", "error"}
  /\ Shape(cache["D"]) = Shape(Entry(Drive("D")))
  /\ Shape(cache["E"]) = Shape(Entry(Drive("E")))

\* C24: a folder scope that was discarded (its folder collapsed, or
\* collapse-all run) is not rescheduled: a poll tick of a folder that is not
\* in the expanded set completes without setting its timer again, so a folder
\* never has two poll chains.
C24_DiscardedScopeStops ==
  [][\A p \in Calls : \A resp \in Responses(p.f) :
       (TickOf(p, resp) /\ p.f \notin expandedFolders) =>
          /\ ~Rescheduled(p)
          /\ \A q \in Calls : (q.pc = "timer" /\ q.f = p.f) => (q = p /\ CopiesIn(p, procs) = 1)]_vars

\* C25: every poll tick merges what it fetched into the folder's fragment:
\* after the tick, also when the chain is rescheduled because a file is still
\* pending, each node of the fragment whose id the fetch returned carries the
\* fetched status.
C25_EveryTickMerges ==
  [][\A p \in Calls : \A resp \in Responses(p.f) :
       (TickOf(p, resp) /\ cache[p.f].present) =>
          LET freshStatus == FetchKBStatusForFolder(p.kb, resp)
              new == cache'[p.f].data
          IN \A i \in 1..Len(new) :
               new[i].id \in DOMAIN freshStatus => new[i].status = freshStatus[new[i].id]]_vars

\* SpecSession: the root-level status poll through a session in which the
\* user also selects the root file r and deletes the selection: a knowledge
\* base restored at mount or created later, the clock running.
InitSession ==
  /\ InitCommon
  /\ variant = "current"
  /\ kbId \in {NoKB, KB}

NextSession ==
  \/ NextRoot
  \/ \E isSelected \in BOOLEAN : HandleRowSelection("r", isSelected)
  \/ NextDel

SpecSession == InitSession /\ [][NextSession]_vars

C27_CollapseAllIsFinal ==
  [][(lastOp.op = "collapseAllFolders" /\ lastOp'.op # "toggleFolder")
       => (expandedFolders' = {} /\ loadingFolders' = {})]_vars

\* SpecOverlap: deletion over a fully expanded tree with a knowledge base,
\* where deleteSelectedFiles may be called again while a batch is running.
InitOverlap ==
  /\ InitDel
  /\ kbId = KB
  /\ expandedFolders = DirIds

NextOverlap ==
  \/ NextDel
  \/ \E selectedIds \in SelectedIds : DeleteSelectedFilesDuringBatch(selectedIds)
  \/ \E ok \in BOOLEAN : OverlapAnswered(ok)

SpecOverlap == InitOverlap /\ [][NextOverlap]_vars

\* C28: isDeleting covers all deletion activity: whenever a delete request is
\* in flight or a file is marked deleting, isDeleting is true, also when
\* deleteSelectedFiles was called while an earlier batch was still running.
C28_IsDeletingCoversActivity ==
  (batch.active \/ overlap.active \/ deletingFiles # {}) => isDeleting

\* C29: a status merge never creates a cache entry. When the fragment of a
\* poll's folder is absent (discarded by a finished deletion batch), the tick
\* or merge leaves every fragment as it was, the folder's one absent, and
\* raises no failure notification.
C29_MergeNeverCreatesEntry ==
  [][\A p \in Calls : \A resp \in Responses(p.f) :
       (MergeStepOf(p, resp) /\ ~cache[p.f].present) =>
          /\ cache' = cache
          /\ toastShown' = toastShown
          /\ errorToastShown' = errorToastShown]_vars

\* C29 witness: a deletion batch has discarded the fragments and D's poll, set
\* up before, has just ended on a fetch that listed a: D's fragment is absent.
C29_Witness ==
  /\ lastOp.op = "pollFinal"
  /\ lastOp.f = "D"
  /\ "a" \in lastOp.ids
  /\ ~cache["D"].present
  /\ batch.results # << >>
====
